---- MODULE Spec2Model ----
(***************************************************************************)
(* Authenticating reverse proxy of the Open Agent Platform web app:        *)
(*   - lib/jwt-utils.ts: per-session JWT issuance with a process-wide      *)
(*     token cache;                                                        *)
(*   - api/langconnect/[...path]/route.ts: the LangConnect forwarder;      *)
(*   - api/oap_mcp/proxy-request.ts: the MCP forwarder and the LangGraph   *)
(*     multi-deployment proxy.                                             *)
(* Strings whose characters matter (identities, paths, queries) are        *)
(* sequences of symbols; a symbol is one character or an atomic run of     *)
(* characters that no operation of the code splits.                        *)
(***************************************************************************)
EXTENDS Integers, Sequences, FiniteSets, TLC

\* ------------------------------------------------------------------ bounds
\* concurrent direct callers of generateJWTToken
MaxCalls == 2
\* direct calls of generateJWTToken per behaviour
MaxStarted == 3
\* clock advances per behaviour
MaxTicks == 1
\* identities that take part in one behaviour
MaxUsers == 2

\* --------------------------------------------------------- program constants
\* jwt-utils.ts:43  const expiresIn = 24 * 60 * 60
ExpiresIn == 86400
\* jwt-utils.ts:42 and :66  seconds <-> milliseconds
MsPerSec == 1000

Min(a, b) == IF a < b THEN a ELSE b

VARIABLES
  clock,       \* Date.now(), milliseconds
  ticks,       \* number of clock advances so far
  env,         \* process.env as generateJWTToken reads it
  population,  \* the identities that call generateJWTToken directly in this behaviour
  tokenCache,  \* jwt-utils.ts:11  Map<string, {token, expiresAt}>
  calls,       \* activations of generateJWTToken suspended at sign(), by slot
  started,     \* number of calls of generateJWTToken so far
  last,        \* history: how a call of generateJWTToken settled in the latest step, if one did
  watched,     \* history: one completed call, chosen freely: its identity and the token it returned
  config,      \* what the route modules read from the environment when they load
  req,         \* the request a route handler is serving
  served,      \* number of requests received so far
  fn,          \* one application of a pure function: its arguments and its result
  stale        \* history: the tokens that were being signed when their cache key was evicted

jwtVars == <<clock, ticks, env, population, tokenCache, calls, started, last, watched>>
proxyVars == <<config, req, served>>
vars == <<jwtVars, proxyVars, fn, stale>>

\* ------------------------------------------------------------- identities
\* (userId, email) pairs; the first two differ but join to the same cache key
Users ==
  { [id |-> <<"a", ":", "b">>, email |-> <<"c">>],
    [id |-> <<"a">>,           email |-> <<"b", ":", "c">>],
    [id |-> <<"u">>,           email |-> <<"e">>] }

\* additionalClaims maps handed to generateJWTToken
ClaimMaps ==
  { [name |-> <<"N">>],
    [user_id |-> <<"x">>, iat |-> 7, exp |-> 9] }

EnvKeys == {"", "k"}
EnvAlgs == {"", "RS256"}

\* ------------------------------------------------------------- jwt-utils.ts
\* `${userId}:${email}`
CacheKey(userId, email) == userId \o <<":">> \o email

\* process.env.JWT_ALGORITHM || "HS256"
Algorithm(e) == IF e.JWT_ALGORITHM = "" THEN "HS256" ELSE e.JWT_ALGORITHM

\* cached && cached.expiresAt > Date.now()
CacheValidMutGe(cache, cacheKey, now) ==
  cacheKey \in DOMAIN cache /\ cache[cacheKey].expiresAt >= now
CacheValidMutLt(cache, cacheKey, now) ==
  cacheKey \in DOMAIN cache /\ cache[cacheKey].expiresAt < now
CacheValid(cache, cacheKey, now) ==
  cacheKey \in DOMAIN cache /\ cache[cacheKey].expiresAt > now

\* Math.floor(Date.now() / 1000)
NowSecondsMutZero(ms) == 0
NowSeconds(ms) == ms \div MsPerSec

\* the claim set handed to SignJWT: the object literal with its spread, then
\* setIssuedAt and setExpirationTime, which overwrite iat and exp
Payload(userId, email, now, additionalClaims) ==
  LET expiresAt == now + ExpiresIn
      literal == additionalClaims @@
                 [user_id |-> userId, email |-> email, iat |-> now, exp |-> expiresAt]
  IN  [iat |-> now, exp |-> expiresAt] @@ literal

\* jose signs HMAC algorithms with a raw secret and rejects every other one
SignSucceedsMutAlways(alg) == TRUE
SignSucceeds(alg) == alg \in {"HS256", "HS384", "HS512"}

\* a compact JWS is a function of its claim set, algorithm and key
Sign(payload, alg, secret) == [payload |-> payload, alg |-> alg, secret |-> secret]

\* expiresAt * 1000
CacheEntryMutSeconds(token, expiresAt) == [token |-> token, expiresAt |-> expiresAt]
CacheEntry(token, expiresAt) == [token |-> token, expiresAt |-> expiresAt * MsPerSec]

MapSetMutOnly(m, k, v) == [x \in {k} |-> v]
MapSet(m, k, v) == [x \in DOMAIN m \cup {k} |-> IF x = k THEN v ELSE m[x]]
MapDeleteMutAll(m, k) == <<>>
MapDelete(m, k) == [x \in DOMAIN m \ {k} |-> m[x]]

IdleCall ==
  [pc |-> "idle", userId |-> <<>>, email |-> <<>>, cached |-> <<>>,
   payload |-> <<>>, alg |-> "", secret |-> ""]

NoOutcome ==
  [kind |-> "none", userId |-> <<>>, email |-> <<>>, result |-> <<>>]

CallSlots == 0..MaxCalls
DirectSlots == 1..MaxCalls

Ident(c) == [id |-> c.userId, email |-> c.email]

\* the instant from which the cache no longer serves a token
TokenExpiry(token) == token.payload.exp * MsPerSec

\* the history variable: a completed call of a direct caller may become the
\* watched one; it stays watched until its cache key is evicted or its token expires
Watch(s, o) ==
  IF s \in DirectSlots /\ o.result # <<>> /\ watched = <<>>
    THEN watched' \in {<<>>, <<[ident |-> Ident(o), token |-> o.result[1]]>>}
    ELSE watched' = watched

Unwatch(keep) ==
  watched' = IF keep THEN watched ELSE <<>>

\* how a call settled: kind is "hit" (line 38), "signed" (line 69), "nokey"
\* (line 30) or "signfail" (sign() rejected)
Outcome(kind, userId, email, result) ==
  [kind |-> kind, userId |-> userId, email |-> email, result |-> result]

\* lines 26-39: what the call does before it builds a payload
EntryOutcomeMutCacheFirst(userId, email) ==
  IF CacheValid(tokenCache, CacheKey(userId, email), clock) THEN "hit"
  ELSE IF env.JWT_SECRET_KEY = "" THEN "nokey"
  ELSE "miss"
EntryOutcome(userId, email) ==
  LET secretKey == env.JWT_SECRET_KEY
      cacheKey == CacheKey(userId, email)
  IN  IF secretKey = "" THEN "nokey"
      ELSE IF CacheValid(tokenCache, cacheKey, clock) THEN "hit"
      ELSE "miss"

\* what line 37 has read of tokenCache.get(cacheKey) when the call goes on to
\* sign: nothing of an absent entry, the expiresAt of an expired one
CacheGet(cache, cacheKey) ==
  IF cacheKey \in DOMAIN cache THEN <<cache[cacheKey].expiresAt>> ELSE <<>>

\* lines 34-55: the activation suspended at the await on sign(), with its locals
Suspended(userId, email, additionalClaims) ==
  [pc |-> "signing", userId |-> userId, email |-> email,
   cached |-> CacheGet(tokenCache, CacheKey(userId, email)),
   payload |-> Payload(userId, email, NowSeconds(clock), additionalClaims),
   alg |-> Algorithm(env), secret |-> env.JWT_SECRET_KEY]

\* lines 26-55 in one activation: the call settles at once (no key, cache hit)
\* or suspends in slot s at the await on sign()
Enter(s, userId, email, additionalClaims) ==
  /\ calls[s].pc = "idle"
  /\ LET e == EntryOutcome(userId, email) IN
       IF e = "miss"
         THEN /\ calls' = [calls EXCEPT ![s] = Suspended(userId, email, additionalClaims)]
              /\ last' = NoOutcome
              /\ UNCHANGED watched
         ELSE /\ last' = Outcome(e, userId, email,
                           IF e = "hit"
                             THEN <<tokenCache[CacheKey(userId, email)].token>>
                             ELSE <<>>)
              /\ Watch(s, last')
              /\ UNCHANGED calls
  /\ started' = started + 1
  /\ UNCHANGED <<clock, ticks, env, population, tokenCache>>

\* a direct call; a new activation takes the lowest free slot
GenerateJWTToken(s, userId, email, additionalClaims) ==
  /\ started < MaxStarted
  /\ \A r \in DirectSlots : r < s => calls[r].pc # "idle"
  /\ Enter(s, userId, email, additionalClaims)
  /\ UNCHANGED <<proxyVars, fn, stale>>

\* the activations left when the one in slot s has returned
Without(cs, s) ==
  [i \in CallSlots |->
     IF i = 0 THEN (IF s = 0 THEN IdleCall ELSE cs[0])
     ELSE IF s = 0 \/ i < s THEN cs[i]
     ELSE IF i < MaxCalls THEN cs[i + 1]
     ELSE IdleCall]

\* lines 57-69: sign() settles; on success the entry is written and the token
\* returned.  The direct callers' activations are kept in order of arrival: when
\* one settles, the later ones move down a slot.
Settle(s) ==
  /\ calls[s].pc = "signing"
  /\ LET c == calls[s]
         token == Sign(c.payload, c.alg, c.secret)
     IN  IF SignSucceeds(c.alg)
           THEN /\ tokenCache' = MapSet(tokenCache, CacheKey(c.userId, c.email),
                                        CacheEntry(token, c.payload.exp))
                /\ last' = Outcome("signed", c.userId, c.email, <<token>>)
           ELSE /\ tokenCache' = tokenCache
                /\ last' = Outcome("signfail", c.userId, c.email, <<>>)
  /\ calls' = Without(calls, s)
  /\ Watch(s, last')
  /\ UNCHANGED <<clock, ticks, env, population, started>>

\* sign() settles for a direct caller
SignSettles(s) == Settle(s) /\ UNCHANGED <<proxyVars, fn, stale>>

\* lines 79-80: the cache clearCachedToken leaves
Cleared(cache, userId, email) == MapDelete(cache, CacheKey(userId, email))

\* line 87: the cache clearAllCachedTokens leaves
ClearedAll(cache) == <<>>

\* lines 78-81
Evict(userId, email) ==
  /\ tokenCache' = Cleared(tokenCache, userId, email)
  /\ Unwatch(/\ watched # <<>>
             /\ CacheKey(watched[1].ident.id, watched[1].ident.email)
                  # CacheKey(userId, email))
  /\ last' = NoOutcome
  /\ UNCHANGED <<clock, ticks, env, population, calls, started>>

ClearCachedToken(userId, email) ==
  Evict(userId, email) /\ UNCHANGED <<proxyVars, fn, stale>>

\* lines 86-88
EvictAll ==
  /\ tokenCache' = ClearedAll(tokenCache)
  /\ watched' = <<>>
  /\ last' = NoOutcome
  /\ UNCHANGED <<clock, ticks, env, population, calls, started>>

ClearAllCachedTokens ==
  EvictAll /\ UNCHANGED <<proxyVars, fn, stale>>

\* the tokens the activations suspended at sign() under the cache keys in keys
\* are signing
InFlight(keys) ==
  { Sign(calls[s].payload, calls[s].alg, calls[s].secret) :
      s \in { x \in CallSlots :
                /\ calls[x].pc = "signing"
                /\ CacheKey(calls[x].userId, calls[x].email) \in keys } }

\* the same three functions with the history kept: an eviction marks the tokens
\* in flight under the evicted keys, a call that goes on to sign a token after
\* it takes that token out again
GenerateJWTTokenSeen(s, userId, email, additionalClaims) ==
  /\ started < MaxStarted
  /\ \A r \in DirectSlots : r < s => calls[r].pc # "idle"
  /\ Enter(s, userId, email, additionalClaims)
  /\ stale' = IF calls'[s].pc = "signing"
                THEN stale \ {Sign(calls'[s].payload, calls'[s].alg, calls'[s].secret)}
                ELSE stale
  /\ UNCHANGED <<proxyVars, fn>>

ClearCachedTokenSeen(userId, email) ==
  /\ Evict(userId, email)
  /\ stale' = stale \cup InFlight({CacheKey(userId, email)})
  /\ UNCHANGED <<proxyVars, fn>>

ClearAllCachedTokensSeen ==
  /\ EvictAll
  /\ stale' = stale \cup InFlight({CacheKey(u.id, u.email) : u \in Users})
  /\ UNCHANGED <<proxyVars, fn>>

\* ---------------------------------------------------------------- strings
EndsWithMutNever(str, sym) == FALSE
EndsWith(str, sym) == str # <<>> /\ str[Len(str)] = sym

StartsWith(str, prefix) ==
  Len(str) >= Len(prefix) /\ SubSeq(str, 1, Len(prefix)) = prefix

\* Array.prototype.join
RECURSIVE Join(_, _)
Join(parts, sep) ==
  IF parts = <<>> THEN <<>>
  ELSE IF Len(parts) = 1 THEN parts[1]
  ELSE parts[1] \o sep \o Join(Tail(parts), sep)

\* Array.prototype.filter(Boolean) on strings
NonEmpty(str) == str # <<>>
FilterBoolean(parts) == SelectSeq(parts, NonEmpty)

\* the prefix of str before the first occurrence of sym (all of str if none)
RECURSIVE Before(_, _)
Before(str, sym) ==
  IF str = <<>> \/ Head(str) = sym THEN <<>>
  ELSE <<Head(str)>> \o Before(Tail(str), sym)

\* -------------------------------------------------------------------- URL
\* new URL(text): text is an origin symbol followed by path and query symbols;
\* an empty path of an http URL is "/", an empty query has no "?"
ParseUrl(text) ==
  LET rest == Tail(text)
      p == Before(rest, "?")
      q == SubSeq(rest, Len(p) + 1, Len(rest))
  IN  [origin |-> Head(text),
       pathname |-> IF p = <<>> THEN <<"/">> ELSE p,
       search |-> IF Len(q) <= 1 THEN <<>> ELSE q]

\* URL.prototype.toString
Href(u) == <<u.origin>> \o u.pathname \o u.search

\* the path percent-encode set holds "?" and "#"
PathEncode(sym) ==
  IF sym = "?" THEN "%3F" ELSE IF sym = "#" THEN "%23" ELSE sym

\* url.pathname = value: the whole value is parsed as a path, so a "?" in it is
\* percent-encoded and never starts a query
SetPathname(u, value) ==
  LET enc == [i \in 1..Len(value) |-> PathEncode(value[i])]
  IN  [u EXCEPT !.pathname = IF StartsWith(enc, <<"/">>) THEN enc ELSE <<"/">> \o enc]

\* url.search = value
SetSearch(u, value) ==
  [u EXCEPT !.search = IF value = <<>> \/ value = <<"?">> THEN <<>>
                         ELSE IF StartsWith(value, <<"?">>) THEN value
                         ELSE <<"?">> \o value]

\* what a function returns or throws
Returned(v) == [ok |-> TRUE, value |-> v]
Threw(message) == [ok |-> FALSE, value |-> message]

\* --------------------------------------------- langconnect/[...path]/route.ts
\* lines 84-100 (and 10-25): the outbound URL from the configured base, the
\* path segments of the route and the query of the inbound URL
BuildTargetUrl(API_BASE, path, search) ==
  IF API_BASE = <<>>
    THEN Threw("LANGCONNECT_API_URL is not configured")
    ELSE LET base == ParseUrl(API_BASE)
             normalizedBasePath ==
               IF EndsWith(base.pathname, "/")
                 THEN SubSeq(base.pathname, 1, Len(base.pathname) - 1)
                 ELSE base.pathname
             normalizedPath == Join(path, <<"/">>)
             joined == Join(FilterBoolean(<<normalizedBasePath, normalizedPath>>), <<"/">>)
         IN  Returned(SetSearch(SetPathname(base, joined), search))

\* ------------------------------------------------- oap_mcp/proxy-request.ts
\* line 63: url.pathname.replace(/^\/api\/oap_mcp/, "")
McpPrefix == <<"/", "api", "/", "oap_mcp">>
StripMcpPrefix(pathname) ==
  IF StartsWith(pathname, McpPrefix)
    THEN SubSeq(pathname, Len(McpPrefix) + 1, Len(pathname))
    ELSE pathname

\* lines 63-72: the outbound URL of the MCP forwarder; path and query of the
\* inbound URL are both appended to the pathname of the configured base
McpTargetUrl(MCP_SERVER_URL, pathname, search) ==
  LET path == StripMcpPrefix(pathname)
      targetUrlObj == ParseUrl(MCP_SERVER_URL)
  IN  SetPathname(targetUrlObj,
        targetUrlObj.pathname
          \o (IF EndsWith(targetUrlObj.pathname, "/") THEN <<>> ELSE <<"/">>)
          \o <<"mcp">> \o path \o search)

\* ------------------------------------------------------ deployment resolver
HexDigits ==
  {"0", "1", "2", "3", "4", "5", "6", "7", "8", "9",
   "a", "b", "c", "d", "e", "f", "A", "B", "C", "D", "E", "F"}

Rep(sym, n) == [i \in 1..n |-> sym]

NilUuid ==
  Rep("0", 8) \o <<"-">> \o Rep("0", 4) \o <<"-">> \o Rep("0", 4) \o <<"-">>
    \o Rep("0", 4) \o <<"-">> \o Rep("0", 12)

ValidateMutAnyHex(str) ==
  /\ Len(str) = 36
  /\ \A i \in 1..36 :
       IF i \in {9, 14, 19, 24} THEN str[i] = "-" ELSE str[i] \in HexDigits

\* validate() of the uuid package: 8-4-4-4-12 hex digits of either case with a
\* version digit and a variant digit, or the nil UUID
Validate(str) ==
  \/ str = NilUuid
  \/ /\ Len(str) = 36
     /\ \A i \in 1..36 :
          IF i \in {9, 14, 19, 24} THEN str[i] = "-" ELSE str[i] \in HexDigits
     /\ str[15] \in {"1", "2", "3", "4", "5"}
     /\ str[20] \in {"8", "9", "a", "b", "A", "B"}

NoDeployment == [found |-> FALSE, baseRoute |-> <<>>, url |-> ""]

\* lines 295-313
GetDeploymentUrl(_path, deployments) ==
  IF _path = <<>> \/ ~Validate(_path[1])
    THEN NoDeployment
    ELSE LET deploymentId == _path[1]
             IsIt(d) == d.id = deploymentId
             found == SelectSeq(deployments, IsIt)
         IN  IF found = <<>>
               THEN NoDeployment
               ELSE [found |-> TRUE,
                     baseRoute |-> <<"langgraph/proxy/">> \o deploymentId,
                     url |-> found[1].deploymentUrl]

\* deployment ids and first path segments
Uuid(sym, version, variant) ==
  Rep(sym, 8) \o <<"-">> \o Rep(sym, 4) \o <<"-", version>> \o Rep(sym, 3)
    \o <<"-", variant>> \o Rep(sym, 3) \o <<"-">> \o Rep(sym, 12)

DeploymentOne == Uuid("1", "4", "8")
DeploymentTwo == Uuid("a", "4", "b")
DeploymentTwoUpper == Uuid("A", "4", "B")
\* 11111111-1111-1111-1111-111111111111: its variant digit is not one of 8 9 a b
AllOnes == Uuid("1", "1", "1")
Truncated == SubSeq(DeploymentOne, 1, 35)
Dev == <<"d", "e", "v">>

\* ----------------------------------------------------------- route handlers
\* requests received per behaviour
MaxRequests == 2

NoConfig ==
  [API_BASE |-> <<>>, MCP_SERVER_URL |-> <<>>, USE_LANGSMITH_AUTH |-> "",
   deployments |-> <<>>]

Routes == {"langconnect", "langconnect-open", "mcp", "langgraph"}

\* the handlers a route module exports
Methods(route) ==
  IF route = "langgraph"
    THEN {"GET", "POST", "PUT", "PATCH", "DELETE"}
    ELSE {"GET", "POST", "PUT", "PATCH", "DELETE", "HEAD", "OPTIONS"}

\* a Response: status line, headers (lower-case names), body
Body(kind, message, error, data) ==
  [kind |-> kind, message |-> message, error |-> error, data |-> data]

Response(status, statusText, headers, body) ==
  [status |-> status, statusText |-> statusText, headers |-> headers, body |-> body]

JsonHeaders == [h \in {"content-type"} |-> <<"application/json">>]
TextHeaders == [h \in {"content-type"} |-> <<"text/plain;charset=UTF-8">>]

\* NextResponse.json({message, error}, {status}) and
\* new Response(JSON.stringify({message, error}), {status, headers})
JsonError(status, message, error) ==
  Response(status, "", JsonHeaders, Body("json", message, error, ""))

\* new Response(text, {status})
TextError(status, text) ==
  Response(status, "", TextHeaders, Body("text", text, "", ""))

\* Headers.set, Headers.delete
SetHeader(headers, name, value) == MapSet(headers, name, value)
DeleteHeaderMutKeep(headers, name) == headers
DeleteHeader(headers, name) == MapDelete(headers, name)

\* headers.forEach: every header of src set on dst
CopyHeaders(dst, src) ==
  [h \in DOMAIN dst \cup DOMAIN src |-> IF h \in DOMAIN src THEN src[h] ELSE dst[h]]

Bearer(token) == <<"Bearer", token>>

\* the statuses of a response that has no body (Fetch: null body status)
NullBodyStatus == {101, 103, 204, 205, 304}

\* response.body of a response without one is null; response.text() is ""
NoBody == Body("none", "", "", "")
TextOf(body) == IF body = NoBody THEN Body("text", "", "", "") ELSE body

\* new NextResponse(body, {status, statusText}) and NextResponse.json(data,
\* {status, statusText}): the Response constructor throws a TypeError when it is
\* given a body, were it the empty string, with a null body status
NewResponse(body, status, statusText, headers) ==
  IF body # NoBody /\ status \in NullBodyStatus
    THEN Threw("Invalid response status code")
    ELSE Returned(Response(status, statusText, headers, body))

\* a request being served; pc is "idle", "token" (awaiting generateJWTToken),
\* "fetch" (awaiting the downstream call) or "done" (returned)
IdleReq ==
  [pc |-> "idle", route |-> "", method |-> "", headers |-> <<>>, body |-> <<>>,
   session |-> <<>>, path |-> <<>>, search |-> <<>>,
   looked |-> FALSE,     \* getSupabaseUser was called
   issued |-> 0,         \* calls of generateJWTToken
   token |-> <<>>,       \* the token generateJWTToken returned
   sent |-> <<>>,        \* the downstream calls made, in order
   failure |-> <<>>,     \* the error fetch threw
   handoff |-> <<>>,     \* the request handed to initApiPassthrough
   resp |-> <<>>]        \* the response returned

Return(r, response) == [r EXCEPT !.pc = "done", !.resp = <<response>>]

AwaitToken(r) == [r EXCEPT !.pc = "token", !.looked = TRUE, !.issued = @ + 1]

AwaitFetch(r, url, headers, body) ==
  [r EXCEPT !.pc = "fetch",
            !.sent = Append(@, [url |-> Href(url), method |-> r.method,
                                 headers |-> headers, body |-> body])]

\* the arguments the routes pass to generateJWTToken
SessionEmail(user) == IF user.email # <<>> THEN user.email ELSE <<"unknown@example.com">>
SessionClaims(user) ==
  LET name == IF user.name # <<>> THEN user.name ELSE user.email
  IN  IF name = <<>> THEN <<>> ELSE [name |-> name]

\* route.ts:180 and :46
LangconnectBody(r) ==
  IF r.method \notin {"GET", "HEAD", "OPTIONS"} THEN r.body ELSE <<>>

\* proxy-request.ts:117-122
McpBody(r) ==
  IF r.method # "GET" /\ r.method # "HEAD" THEN r.body ELSE <<>>

\* proxy-request.ts:55-56
McpNotConfigured ==
  "MCP_SERVER_URL environment variable is not set. Please set it to the URL of your MCP server, or NEXT_PUBLIC_MCP_SERVER_URL if you do not want to use the proxy route."

\* the handler up to its first await of generateJWTToken or fetch, or its return
StartMutIdentityFirst(r) ==
  IF r.session = <<>>
    THEN Return([r EXCEPT !.looked = TRUE], JsonError(401, "Authentication required", ""))
    ELSE AwaitToken(r)
StartMutAnonymous(r) ==
  AwaitFetch([r EXCEPT !.looked = TRUE],
             BuildTargetUrl(<<"http://backend">>, <<>>, r.search).value,
             DeleteHeader(r.headers, "host"), LangconnectBody(r))
Start(r) ==
  CASE r.route = "langconnect" ->
         \* route.ts:138-178
         LET targetUrl == BuildTargetUrl(config.API_BASE, r.path, r.search)
         IN  IF ~targetUrl.ok THEN Return(r, JsonError(500, targetUrl.value, ""))
             ELSE IF r.session = <<>>
               THEN Return([r EXCEPT !.looked = TRUE],
                           JsonError(401, "Authentication required", ""))
               ELSE AwaitToken(r)
    [] r.route = "langconnect-open" ->
         \* route.ts:33-51
         LET targetUrl == BuildTargetUrl(config.API_BASE, r.path, r.search)
         IN  IF ~targetUrl.ok THEN Return(r, JsonError(500, targetUrl.value, ""))
             ELSE AwaitFetch(r, targetUrl.value, DeleteHeader(r.headers, "host"),
                             LangconnectBody(r))
    [] r.route = "mcp" ->
         \* proxy-request.ts:52-113
         IF config.MCP_SERVER_URL = <<>>
           THEN Return(r, JsonError(500, McpNotConfigured, ""))
           ELSE IF r.session = <<>>
             THEN Return([r EXCEPT !.looked = TRUE],
                         JsonError(401, "Authentication required", ""))
             ELSE AwaitToken(r)
    [] r.route = "langgraph" ->
         \* proxy-request.ts:315-329 and 263-268
         LET urlAndRoute == GetDeploymentUrl(r.path, config.deployments)
         IN  IF ~urlAndRoute.found THEN Return(r, TextError(404, "Deployment not found"))
             ELSE IF config.USE_LANGSMITH_AUTH # "true"
               THEN Return(r, TextError(403, "Proxy route not enabled"))
             ELSE IF r.session = <<>>
               THEN Return([r EXCEPT !.looked = TRUE],
                           TextError(401, "Authentication required"))
               ELSE AwaitToken(r)

\* the handler from the settling of generateJWTToken (result is <<token>>, or
\* <<>> when it threw) to its await of fetch or its return
AfterToken(r0, result) ==
  LET r == [r0 EXCEPT !.token = result] IN
  CASE r.route = "langconnect" ->
         \* route.ts:162-185
         IF result = <<>>
           THEN Return(r, JsonError(500, "Failed to generate authentication token", ""))
           ELSE AwaitFetch(r, BuildTargetUrl(config.API_BASE, r.path, r.search).value,
                           SetHeader(DeleteHeader(r.headers, "host"),
                                     "authorization", Bearer(result[1])),
                           LangconnectBody(r))
    [] r.route = "mcp" ->
         \* proxy-request.ts:74-80 and 94-130
         IF result = <<>>
           THEN Return(r, JsonError(500, "Failed to generate authentication token", ""))
           ELSE AwaitFetch(r, McpTargetUrl(config.MCP_SERVER_URL, r.path, r.search),
                           SetHeader(SetHeader(DeleteHeader(r.headers, "host"),
                                               "authorization", Bearer(result[1])),
                                     "accept", <<"application/json, text/event-stream">>),
                           McpBody(r))
    [] r.route = "langgraph" ->
         \* proxy-request.ts:279-285 and 326-345
         IF result = <<>>
           THEN Return(r, TextError(401, "Authentication required"))
           ELSE LET urlAndRoute == GetDeploymentUrl(r.path, config.deployments)
                    authedReq ==
                      [method |-> r.method,
                       headers |-> SetHeader(r.headers, "authorization", Bearer(result[1])),
                       body |-> r.body,
                       apiUrl |-> urlAndRoute.url,
                       baseRoute |-> urlAndRoute.baseRoute]
                IN  [r EXCEPT !.pc = "done", !.handoff = <<authedReq>>]

\* what fetch settles with
Fetched(response) == [ok |-> TRUE, response |-> response, error |-> ""]
FetchFailed(error) == [ok |-> FALSE, response |-> <<>>, error |-> error]

\* the handler from the settling of fetch to its return
AfterFetchMutRetry(r, o) ==
  IF ~o.ok
    THEN [r EXCEPT !.sent = Append(@, @[1])]
    ELSE Return(r, Response(o.response.status, o.response.statusText,
                            o.response.headers, o.response.body))
AfterFetch(r, o) ==
  IF ~o.ok
    THEN \* route.ts:195-202 and :60-67, proxy-request.ts:159-170
         Return([r EXCEPT !.failure = <<o.error>>],
                JsonError(502,
                          IF r.route = "mcp" THEN "Proxy request failed"
                                             ELSE "LangConnect proxy request failed",
                          o.error))
    ELSE LET d == o.response IN
         IF r.route = "mcp"
           THEN \* proxy-request.ts:131-158, and the catch at :159-170 when the
                \* constructor throws
                LET newResponse ==
                      IF d.body.kind = "json"
                        THEN NewResponse(d.body, d.status, d.statusText, JsonHeaders)
                        ELSE NewResponse(TextOf(d.body), d.status, d.statusText,
                                         TextHeaders)
                IN  IF newResponse.ok
                      THEN Return(r, [newResponse.value EXCEPT
                                        !.headers = CopyHeaders(@, d.headers)])
                      ELSE Return(r, JsonError(502, "Proxy request failed",
                                               newResponse.value))
           ELSE \* route.ts:185-194 and :50-59
                LET proxied == NewResponse(d.body, d.status, d.statusText, <<>>)
                IN  IF proxied.ok
                      THEN Return(r, [proxied.value EXCEPT
                                        !.headers = CopyHeaders(@, d.headers)])
                      ELSE Return(r, JsonError(502, "LangConnect proxy request failed",
                                               proxied.value))

\* --------------------------------------------------- requests and downstream
\* what the module-level constants and process.env hold
Configs ==
  { [API_BASE |-> <<"http://backend", "/", "api", "/">>,
     MCP_SERVER_URL |-> <<"http://tools">>,
     USE_LANGSMITH_AUTH |-> flag,
     deployments |-> <<[id |-> DeploymentOne, deploymentUrl |-> "http://one"]>>]
      : flag \in {"true", "false"} }
  \cup
  { [API_BASE |-> <<>>, MCP_SERVER_URL |-> <<>>, USE_LANGSMITH_AUTH |-> "true",
     deployments |-> <<[id |-> DeploymentOne, deploymentUrl |-> "http://one"],
                       [id |-> Dev, deploymentUrl |-> "http://dev"]>>] }

\* what getSupabaseUser returns: no user, or a session user
Sessions ==
  { <<>>,
    <<[id |-> <<"u">>, email |-> <<"e">>, name |-> <<"N">>]>>,
    <<[id |-> <<"v">>, email |-> <<>>, name |-> <<>>]>> }

\* a bearer token the client made up
ClientToken == Sign([user_id |-> <<"root">>], "none", "")

\* inbound header sets
HeaderSets ==
  { [h \in {"host"} |-> <<"app">>],
    [h \in {"host", "authorization", "accept", "x-trace"} |->
       CASE h = "host" -> <<"app">>
         [] h = "authorization" -> Bearer(ClientToken)
         [] h = "accept" -> <<"text/html">>
         [] h = "x-trace" -> <<"t1">>] }

\* a Request whose method is GET or HEAD cannot have a body
Bodies(method) == IF method \in {"GET", "HEAD"} THEN {<<>>} ELSE {<<>>, <<"payload">>}

\* the catch-all parameter (LangConnect, LangGraph) or the URL pathname (MCP)
RoutePaths(route) ==
  CASE route = "mcp" -> {<<"/", "api", "/", "oap_mcp", "/", "tools">>}
    [] route = "langgraph" -> {<<DeploymentOne, <<"threads">>>>, <<DeploymentTwo>>, <<Dev>>}
    [] OTHER -> {<<<<"collections">>, <<"7">>>>}

Requests ==
  { [IdleReq EXCEPT !.route = route, !.method = method, !.headers = headers,
                    !.body = body, !.session = session, !.path = path,
                    !.search = search] :
      route \in Routes, method \in {"GET", "POST", "PUT", "PATCH", "DELETE", "HEAD", "OPTIONS"},
      headers \in HeaderSets, body \in {<<>>, <<"payload">>}, session \in Sessions,
      path \in UNION {RoutePaths(x) : x \in Routes}, search \in {<<"?", "a=1">>} }

\* the requests that can arrive
Arrivals ==
  { r \in Requests :
      /\ r.body \in Bodies(r.method)
      /\ r.path \in RoutePaths(r.route)
      /\ r.route = "langconnect-open" => r.session = <<>> }

\* what the downstream answers
DownstreamResponses ==
  { Response(200, "OK", [h \in {"content-type", "x-served-by"} |->
                           IF h = "content-type" THEN <<"application/vnd.api+json">>
                                                 ELSE <<"d1">>],
             Body("json", "", "", "result")),
    Response(404, "Not Found", [h \in {"content-type"} |-> <<"text/html">>],
             Body("text", "", "", "page")),
    Response(204, "No Content", [h \in {"x-served-by"} |-> <<"d1">>], NoBody) }

FetchOutcomes ==
  {Fetched(d) : d \in DownstreamResponses} \cup {FetchFailed("ECONNREFUSED")}

\* The framework calls the handler a route module exports for the request's
\* method, and the exported GET handler for a HEAD request when no HEAD handler
\* is exported.
Dispatched(route) ==
  Methods(route) \cup (IF "GET" \in Methods(route) THEN {"HEAD"} ELSE {})

\* The framework's own answers to a method the module exports no handler for:
\* 405, or for OPTIONS a 204 that lists the exported methods.
FrameworkAnswers(r) ==
  {Response(405, "Method Not Allowed", <<>>, NoBody)}
  \cup (IF r.method = "OPTIONS"
          THEN {Response(204, "No Content",
                         [h \in {"allow"} |-> <<"DELETE, GET, HEAD, OPTIONS, PATCH, POST, PUT">>],
                         NoBody)}
          ELSE {})

\* a request arrives and its handler runs to its first await or to its return;
\* generateJWTToken, when called, runs in slot 0 up to its own first await
Receive(r) ==
  /\ req.pc = "idle"
  /\ served < MaxRequests
  /\ r.method \in Dispatched(r.route)
  /\ served' = served + 1
  /\ LET r1 == Start(r) IN
       IF r1.pc = "token"
         THEN LET user == r.session[1] IN
              /\ Enter(0, user.id, SessionEmail(user), SessionClaims(user))
              /\ req' = IF calls'[0].pc = "signing" THEN r1
                                                    ELSE AfterToken(r1, last'.result)
         ELSE /\ req' = r1
              /\ UNCHANGED jwtVars
  /\ UNCHANGED <<config, fn, stale>>

\* a request with a method the framework answers itself: no code of the route
\* module runs
Unhandled(r, answer) ==
  /\ req.pc = "idle"
  /\ served < MaxRequests
  /\ r.method \notin Dispatched(r.route)
  /\ served' = served + 1
  /\ req' = Return(r, answer)
  /\ UNCHANGED <<jwtVars, config, fn, stale>>

\* sign() settles for the request's call and the handler runs on
TokenSettles ==
  /\ req.pc = "token"
  /\ Settle(0)
  /\ req' = AfterToken(req, last'.result)
  /\ UNCHANGED <<config, served, fn, stale>>

\* fetch settles and the handler returns
FetchSettles(o) ==
  /\ req.pc = "fetch"
  /\ req' = AfterFetch(req, o)
  /\ UNCHANGED <<jwtVars, config, served, fn, stale>>

\* the response is delivered; the next request can arrive
Deliver ==
  /\ req.pc = "done"
  /\ req' = IdleReq
  /\ UNCHANGED <<jwtVars, config, served, fn, stale>>

\* ------------------------------------------------ pure functions, applied
\* values of the catch-all route parameter _path
DeploymentPaths ==
  { <<>>, <<DeploymentOne>>, <<DeploymentOne, <<"threads">>>>, <<DeploymentTwo>>,
    <<DeploymentTwoUpper>>, <<AllOnes>>, <<Truncated>>, <<Dev>>, <<NilUuid>>,
    <<<<"threads">>, DeploymentOne>> }

\* values of getDeployments()
Registries ==
  { <<>>,
    <<[id |-> DeploymentOne, deploymentUrl |-> "http://one"],
      [id |-> DeploymentTwo, deploymentUrl |-> "http://two"]>>,
    <<[id |-> DeploymentTwo, deploymentUrl |-> "http://two"],
      [id |-> DeploymentOne, deploymentUrl |-> "http://one"],
      [id |-> DeploymentOne, deploymentUrl |-> "http://other"]>>,
    <<[id |-> Dev, deploymentUrl |-> "http://dev"],
      [id |-> AllOnes, deploymentUrl |-> "http://ones"],
      [id |-> NilUuid, deploymentUrl |-> "http://nil"]>> }

\* values of LANGCONNECT_API_URL and NEXT_PUBLIC_MCP_SERVER_URL
BaseUrls ==
  { <<"http://backend">>,
    <<"http://backend", "/">>,
    <<"http://backend", "/", "api">>,
    <<"http://backend", "/", "api", "/">>,
    <<"http://backend", "/", "api", "/", "/">> }

\* values of the catch-all route parameter path of the LangConnect route
SegmentLists ==
  { <<>>, <<<<"collections">>>>, <<<<"collections">>, <<"7">>>>, <<<<"a", "?", "b">>>> }

\* pathnames of inbound URLs of the MCP route
McpPathnames ==
  { <<"/", "api", "/", "oap_mcp">>,
    <<"/", "api", "/", "oap_mcp", "/">>,
    <<"/", "api", "/", "oap_mcp", "/", "tools", "/", "list">> }

\* the search of an inbound URL: empty, or "?" and a query
Searches ==
  { <<>>, <<"?", "a=1">>, <<"?", "b=%20", "&", "a=1", "&", "a=2">> }

NotApplied == [op |-> "", args |-> <<>>, out |-> <<>>]

Applied(op, args, out) == [op |-> op, args |-> args, out |-> <<out>>]

CallBuildTargetUrl(API_BASE, path, search) ==
  /\ fn = NotApplied
  /\ fn' = Applied("buildTargetUrl",
                   [base |-> API_BASE, path |-> path, search |-> search],
                   BuildTargetUrl(API_BASE, path, search))
  /\ UNCHANGED <<jwtVars, proxyVars, stale>>

CallMcpTargetUrl(MCP_SERVER_URL, pathname, search) ==
  /\ fn = NotApplied
  /\ fn' = Applied("mcpTargetUrl",
                   [base |-> MCP_SERVER_URL, path |-> pathname, search |-> search],
                   Returned(McpTargetUrl(MCP_SERVER_URL, pathname, search)))
  /\ UNCHANGED <<jwtVars, proxyVars, stale>>

CallGetDeploymentUrl(_path, deployments) ==
  /\ fn = NotApplied
  /\ fn' = Applied("getDeploymentUrl",
                   [path |-> _path, deployments |-> deployments],
                   GetDeploymentUrl(_path, deployments))
  /\ UNCHANGED <<jwtVars, proxyVars, stale>>

\* a token issued to u at second now, as lines 42-67 cache it
IssuedEntry(u, now) ==
  LET token == Sign(Payload(u.id, u.email, now, [name |-> <<"N">>]), "HS256", "k")
  IN  CacheEntry(token, token.payload.exp)

\* the caches up to MaxEntries successful issuances leave
MaxEntries == 2

RECURSIVE CachesAfter(_)
CachesAfter(n) ==
  IF n = 0 THEN {<<>>}
  ELSE LET before == CachesAfter(n - 1) IN
       before \cup { MapSet(c, CacheKey(u.id, u.email), IssuedEntry(u, now)) :
                       c \in before, u \in Users, now \in {0, ExpiresIn} }

Caches == CachesAfter(MaxEntries)

CallClearCachedToken(cache, userId, email) ==
  /\ fn = NotApplied
  /\ fn' = Applied("clearCachedToken",
                   [cache |-> cache, userId |-> userId, email |-> email],
                   Cleared(cache, userId, email))
  /\ UNCHANGED <<jwtVars, proxyVars, stale>>

CallClearAllCachedTokens(cache) ==
  /\ fn = NotApplied
  /\ fn' = Applied("clearAllCachedTokens", [cache |-> cache], ClearedAll(cache))
  /\ UNCHANGED <<jwtVars, proxyVars, stale>>

\* ------------------------------------------------------------- environment
\* within one second; one full validity period
TickSteps == {MsPerSec - 1, ExpiresIn * MsPerSec}

Tick(d) ==
  /\ ticks < MaxTicks
  /\ clock' = clock + d
  /\ ticks' = ticks + 1
  /\ Unwatch(watched # <<>> /\ clock' < TokenExpiry(watched[1].token))
  /\ last' = NoOutcome
  /\ UNCHANGED <<env, population, tokenCache, calls, started>>
  /\ UNCHANGED <<proxyVars, fn, stale>>

\* nothing has happened yet
Quiet ==
  /\ clock = 0
  /\ started = 0
  /\ ticks = 0
  /\ tokenCache = <<>>
  /\ calls = [s \in CallSlots |-> IdleCall]
  /\ last = NoOutcome
  /\ watched = <<>>
  /\ req = IdleReq
  /\ served = 0
  /\ fn = NotApplied
  /\ stale = {}

\* direct callers of jwt-utils.ts
Init ==
  /\ Quiet
  /\ env \in [JWT_SECRET_KEY : EnvKeys, JWT_ALGORITHM : EnvAlgs]
  /\ population \in {S \in SUBSET Users : Cardinality(S) = Min(MaxUsers, Cardinality(Users))}
  /\ config = NoConfig

Next ==
  \/ \E s \in DirectSlots, u \in population, ac \in ClaimMaps :
       GenerateJWTToken(s, u.id, u.email, ac)
  \/ \E s \in DirectSlots : SignSettles(s)
  \/ \E u \in population : ClearCachedToken(u.id, u.email)
  \/ ClearAllCachedTokens
  \/ \E d \in TickSteps : Tick(d)

Spec == Init /\ [][Next]_vars

\* process.env is read at every call (line 26): the key may be taken out of the
\* environment while the process runs
UnsetSecretKey ==
  /\ env.JWT_SECRET_KEY # ""
  /\ env' = [env EXCEPT !.JWT_SECRET_KEY = ""]
  /\ last' = NoOutcome
  /\ UNCHANGED <<clock, ticks, population, tokenCache, calls, started, watched>>
  /\ UNCHANGED <<proxyVars, fn, stale>>

\* ... and so is JWT_ALGORITHM (line 27): it may be set to an algorithm that
\* sign() rejects for a raw secret
SetAlgorithm ==
  /\ env.JWT_ALGORITHM = ""
  /\ env' = [env EXCEPT !.JWT_ALGORITHM = "RS256"]
  /\ last' = NoOutcome
  /\ UNCHANGED <<clock, ticks, population, tokenCache, calls, started, watched>>
  /\ UNCHANGED <<proxyVars, fn, stale>>

\* direct callers of jwt-utils.ts in a process whose environment changes, seen
\* at one instant of the clock
NextEnv ==
  \/ \E s \in DirectSlots, u \in population, ac \in ClaimMaps :
       GenerateJWTToken(s, u.id, u.email, ac)
  \/ \E s \in DirectSlots : SignSettles(s)
  \/ \E u \in population : ClearCachedToken(u.id, u.email)
  \/ ClearAllCachedTokens
  \/ UnsetSecretKey
  \/ SetAlgorithm

SpecEnv == Init /\ [][NextEnv]_vars

\* direct callers of jwt-utils.ts with the evictions remembered, seen at one
\* instant of the clock
NextEvict ==
  \/ \E s \in DirectSlots, u \in population, ac \in ClaimMaps :
       GenerateJWTTokenSeen(s, u.id, u.email, ac)
  \/ \E s \in DirectSlots : SignSettles(s)
  \/ \E u \in population : ClearCachedTokenSeen(u.id, u.email)
  \/ ClearAllCachedTokensSeen

SpecEvict == Init /\ [][NextEvict]_vars

\* the pure functions, each applied once to arguments drawn from the sets above
InitFn ==
  /\ Quiet
  /\ env = [JWT_SECRET_KEY |-> "k", JWT_ALGORITHM |-> ""]
  /\ population = {}
  /\ config = NoConfig

NextFn ==
  \/ \E b \in BaseUrls \cup {<<>>}, p \in SegmentLists, q \in Searches :
       CallBuildTargetUrl(b, p, q)
  \/ \E b \in BaseUrls, p \in McpPathnames, q \in Searches :
       CallMcpTargetUrl(b, p, q)
  \/ \E p \in DeploymentPaths, d \in Registries : CallGetDeploymentUrl(p, d)
  \/ \E c \in Caches, u \in Users : CallClearCachedToken(c, u.id, u.email)
  \/ \E c \in Caches : CallClearAllCachedTokens(c)

SpecFn == InitFn /\ [][NextFn]_vars

\* the route handlers serving requests one after another
InitProxy ==
  /\ Quiet
  /\ env \in [JWT_SECRET_KEY : EnvKeys, JWT_ALGORITHM : EnvAlgs]
  /\ population = {}
  /\ config \in Configs

NextProxy ==
  \/ \E r \in Arrivals : Receive(r)
  \/ \E r \in Arrivals : \E answer \in FrameworkAnswers(r) : Unhandled(r, answer)
  \/ TokenSettles
  \/ \E o \in FetchOutcomes : FetchSettles(o)
  \/ Deliver
  \/ \E d \in TickSteps : Tick(d)

SpecProxy == InitProxy /\ [][NextProxy]_vars

\* the route handlers with the clock standing still: none of the checks a
\* handler makes before it asks for a token reads the time
NextProxyNoTick ==
  \/ \E r \in Arrivals : Receive(r)
  \/ \E r \in Arrivals : \E answer \in FrameworkAnswers(r) : Unhandled(r, answer)
  \/ TokenSettles
  \/ \E o \in FetchOutcomes : FetchSettles(o)
  \/ Deliver

SpecProxyNoTick == InitProxy /\ [][NextProxyNoTick]_vars

\* ------------------------------------------------------------------ claims
\* a call of generateJWTToken for identity I enters in this step
Entered(I) ==
  /\ started' = started + 1
  /\ \/ \E s \in CallSlots :
          calls[s].pc = "idle" /\ calls'[s].pc = "signing" /\ Ident(calls'[s]) = I
     \/ calls' = calls /\ Ident(last') = I

\* ... and settles in the same step, returning token t from the cache
ReturnsCached(t) ==
  calls' = calls /\ last'.kind = "hit" /\ last'.result = <<t>>

\* no other identity of this behaviour joins to I's cache key
Unshared(I) ==
  \A J \in population : J # I => CacheKey(J.id, J.email) # CacheKey(I.id, I.email)

\* C1 as claimed: once a call for identity I has returned T, every call for I
\* that starts later, before T expires and with no eviction of I's entry in
\* between, returns exactly T without signing.  (Stated for the identities
\* whose cache key is theirs alone.)
C1_AsClaimed ==
  [][\A I \in Users :
       ( /\ Entered(I)
         /\ Unshared(I)
         /\ watched # <<>>
         /\ watched[1].ident = I
         /\ clock < TokenExpiry(watched[1].token) )
       => ReturnsCached(watched[1].token)]_vars

\* C1 (amended): once a call for identity I has returned T, every call for I
\* that starts later with the signing key configured, while the cache still holds
\* T under I's key and before its expiry, returns exactly T without signing and
\* without touching the cache, whatever extra claims it passes.
C1_CacheHit ==
  [][\A I \in Users :
       ( /\ Entered(I)
         /\ watched # <<>>
         /\ watched[1].ident = I
         /\ env.JWT_SECRET_KEY # ""
         /\ CacheKey(I.id, I.email) \in DOMAIN tokenCache
         /\ tokenCache[CacheKey(I.id, I.email)].token = watched[1].token
         /\ clock < tokenCache[CacheKey(I.id, I.email)].expiresAt )
       => (ReturnsCached(watched[1].token) /\ tokenCache' = tokenCache)]_vars

\* C1 witness: a later call for the watched identity was answered from the
\* cache with the watched token
C1_Witness ==
  /\ watched # <<>>
  /\ last.kind = "hit"
  /\ Ident(last) = watched[1].ident
  /\ last.result = <<watched[1].token>>
  /\ started >= 2

\* C2: a call returns the cached token only while the clock is strictly before
\* the entry's expiresAt; with a key configured and the entry absent or expired
\* the call goes on to sign a token issued now, and when sign() resolves the
\* entry under the caller's key is overwritten with that token.
C2_HitOnlyBeforeExpiry ==
  [][ /\ \A I \in Users :
           LET k == CacheKey(I.id, I.email)
               fresh == k \in DOMAIN tokenCache /\ clock < tokenCache[k].expiresAt
           IN  Entered(I) =>
                 /\ last'.kind = "hit" /\ calls' = calls
                      => fresh /\ last'.result = <<tokenCache[k].token>>
                 /\ env.JWT_SECRET_KEY # "" /\ ~fresh
                      => \E s \in CallSlots :
                           /\ calls[s].pc = "idle"
                           /\ calls'[s].pc = "signing"
                           /\ calls'[s].payload.iat = NowSeconds(clock)
      /\ last'.kind = "signed"
           => LET k == CacheKey(last'.userId, last'.email)
                  token == last'.result[1]
              IN  /\ \E s \in CallSlots :
                       /\ calls[s].pc = "signing"
                       /\ Ident(calls[s]) = Ident(last')
                       /\ calls[s].payload = token.payload
                  /\ k \in DOMAIN tokenCache'
                  /\ tokenCache'[k].token = token
                  /\ tokenCache'[k].expiresAt = token.payload.exp * MsPerSec ]_vars

\* C2 witness: a call that started at the very instant its entry expires was not
\* served from the cache: it is signing a token issued at that instant
C2_Witness ==
  \E s \in CallSlots :
    LET k == CacheKey(calls[s].userId, calls[s].email) IN
    /\ calls[s].pc = "signing"
    /\ k \in DOMAIN tokenCache
    /\ tokenCache[k].expiresAt = clock
    /\ calls[s].payload.iat = NowSeconds(clock)
    /\ calls[s].payload.iat = ExpiresIn

\* ---------------------------------------------------------------- C3
\* the routes that look up the session identity
AuthRoutes == {"langconnect", "mcp", "langgraph"}
\* ... and those of them that make the downstream call themselves
Forwarders == {"langconnect", "mcp"}

\* C3: on every authenticated route, a request whose identity lookup returned
\* no user has ended with 401 "Authentication required"; it made no downstream
\* call, handed nothing to the pass-through and never called generateJWTToken.
C3_NoUser401 ==
  (req.route \in AuthRoutes /\ req.looked /\ req.session = <<>>) =>
    /\ req.pc = "done"
    /\ req.resp # <<>>
    /\ req.resp[1].status = 401
    /\ req.resp[1].body.message = "Authentication required"
    /\ req.sent = <<>>
    /\ req.handoff = <<>>
    /\ req.issued = 0
    /\ calls[0].pc = "idle"

\* C3 witness: the deployment proxy, enabled and resolving, found no user
C3_Witness ==
  /\ req.route = "langgraph"
  /\ req.looked
  /\ req.session = <<>>
  /\ req.resp # <<>>
  /\ req.resp[1].status = 401

\* ---------------------------------------------------------------- C4
\* the downstream call carries the token issued to the session user in this request
CarriesOwnToken(r, headers) ==
  /\ r.token # <<>>
  /\ r.issued = 1
  /\ "authorization" \in DOMAIN headers
  /\ headers["authorization"] = Bearer(r.token[1])
  /\ r.token[1].payload.user_id = r.session[1].id
  /\ r.token[1].payload.email = SessionEmail(r.session[1])

\* every inbound header outside skip is forwarded with its value
Forwards(r, headers, skip) ==
  \A h \in DOMAIN r.headers \ skip :
    h \in DOMAIN headers /\ headers[h] = r.headers[h]

\* C4 as claimed: every downstream call of an authenticated forwarder carries
\* "Bearer " and the token issued in this request as its one Authorization
\* header, never the host header, and every other inbound header unchanged.
C4_AsClaimed ==
  req.route \in Forwarders =>
    \A i \in 1..Len(req.sent) :
      /\ CarriesOwnToken(req, req.sent[i].headers)
      /\ "host" \notin DOMAIN req.sent[i].headers
      /\ Forwards(req, req.sent[i].headers, {"host", "authorization"})

\* C4 (amended): as claimed, except that the MCP forwarder sends its own fixed
\* Accept header in place of the inbound one.
C4_AuthorizationReplaced ==
  req.route \in Forwarders =>
    \A i \in 1..Len(req.sent) :
      LET headers == req.sent[i].headers IN
      /\ CarriesOwnToken(req, headers)
      /\ "host" \notin DOMAIN headers
      /\ IF req.route = "mcp"
           THEN /\ Forwards(req, headers, {"host", "authorization", "accept"})
                /\ headers["accept"] = <<"application/json, text/event-stream">>
           ELSE Forwards(req, headers, {"host", "authorization"})

\* C4 witness: the MCP forwarder called downstream for a client that sent its
\* own Authorization and Accept headers
C4_Witness ==
  /\ req.route = "mcp"
  /\ req.pc = "fetch"
  /\ {"authorization", "accept", "host"} \subseteq DOMAIN req.headers
  /\ req.sent[1].headers["authorization"] # req.headers["authorization"]

\* ---------------------------------------------------------------- C5
\* C5 as claimed: with the feature flag not enabled, every request to the
\* deployment proxy ends with 403 "Proxy route not enabled", whatever its path.
C5_DisabledAlways403 ==
  (req.route = "langgraph" /\ config.USE_LANGSMITH_AUTH # "true" /\ req.pc # "idle") =>
    /\ req.pc = "done"
    /\ req.resp # <<>>
    /\ req.resp[1].status = 403
    /\ req.resp[1].body.message = "Proxy route not enabled"

\* ---------------------------------------------------------------- C7
\* C7 as claimed: on every authenticated route, a request with a session user
\* whose call of generateJWTToken threw ends with 500 "Failed to generate
\* authentication token" and makes no downstream call.
C7_TokenFailure500 ==
  ( /\ req.route \in AuthRoutes
    /\ req.session # <<>>
    /\ req.issued > 0
    /\ req.pc \notin {"idle", "token"}
    /\ req.token = <<>> ) =>
    /\ req.pc = "done"
    /\ req.resp # <<>>
    /\ req.resp[1].status = 500
    /\ req.resp[1].body.message = "Failed to generate authentication token"
    /\ req.sent = <<>>
    /\ req.handoff = <<>>

\* ---------------------------------------------------------------- C8
\* C8 as claimed: the downstream call of a GET, HEAD or OPTIONS request has no
\* body; the downstream call of any other request has the inbound body.
C8_BodyPolicy ==
  \A i \in 1..Len(req.sent) :
    req.sent[i].body = IF req.method \in {"GET", "HEAD", "OPTIONS"} THEN <<>> ELSE req.body

\* ---------------------------------------------------------------- C9
\* C9: a request makes at most one downstream call; when that call fails in
\* transport the handler returns (it does not throw) a 502 JSON response with a
\* message and, as error, the text of the failure.
C9_TransportFailure502 ==
  /\ Len(req.sent) <= 1
  /\ req.pc = "fetch" => Len(req.sent) = 1 /\ req.resp = <<>>
  /\ req.failure # <<>> =>
       /\ req.pc = "done"
       /\ req.resp # <<>>
       /\ req.resp[1].status = 502
       /\ req.resp[1].body.kind = "json"
       /\ req.resp[1].body.message \in {"LangConnect proxy request failed", "Proxy request failed"}
       /\ req.resp[1].body.error = req.failure[1]
       /\ req.failure[1] = "ECONNREFUSED"

\* C9 witness: the MCP forwarder's only downstream call was refused
C9_Witness ==
  /\ req.route = "mcp"
  /\ req.failure = <<"ECONNREFUSED">>
  /\ Len(req.sent) = 1
  /\ req.resp[1].status = 502

\* ---------------------------------------------------------------- C6
\* the first segments of DeploymentPaths that are well-formed UUIDs, listed by hand
WellFormedIds == {DeploymentOne, DeploymentTwo, DeploymentTwoUpper, NilUuid}

\* C6: getDeploymentUrl always returns (it never throws): null when the first
\* segment is missing, is not a well-formed UUID or is the id of no registry
\* record, and otherwise baseRoute "langgraph/proxy/<id>" with the URL of the
\* first record whose id equals the segment symbol for symbol.
C6_ResolutionTotalExact ==
  fn.op = "getDeploymentUrl" =>
    LET path == fn.args.path
        reg == fn.args.deployments
        out == fn.out[1]
        hits == {i \in 1..Len(reg) :
                   path # <<>> /\ path[1] \in WellFormedIds /\ reg[i].id = path[1]}
    IN  IF hits = {}
          THEN out = NoDeployment
          ELSE /\ out.found
               /\ out.baseRoute = <<"langgraph/proxy/">> \o path[1]
               /\ \E i \in hits : /\ \A j \in hits : i <= j
                                  /\ out.url = reg[i].deploymentUrl

\* C6 witness: a registered deployment id followed by a residual path resolved
C6_Witness ==
  /\ fn.op = "getDeploymentUrl"
  /\ Len(fn.args.path) = 2
  /\ fn.out[1].found
  /\ fn.out[1].url = "http://one"
  /\ Len(fn.args.deployments) = 3

\* ---------------------------------------------------------------- C10
\* C10 as claimed: the query of the outbound URL is the query of the inbound
\* URL, unchanged, and the outbound path is the one the same request without a
\* query is sent to; in the LangConnect rewriter and in the MCP rewriter.
C10_QueryPreserved ==
  (fn.op \in {"buildTargetUrl", "mcpTargetUrl"} /\ fn.out[1].ok) =>
    LET a == fn.args
        bare == IF fn.op = "buildTargetUrl"
                  THEN BuildTargetUrl(a.base, a.path, <<>>).value
                  ELSE McpTargetUrl(a.base, a.path, <<>>)
    IN  /\ fn.out[1].value.search = a.search
        /\ fn.out[1].value.pathname = bare.pathname

\* ---------------------------------------------------------------- C11
\* the outbound path joins base path p and the residual segments with exactly
\* one "/" between them, and has no "/" next to another
OneSlashBoundary(pathname, p, path) ==
  LET residual == Join(path, <<"/">>) IN
  /\ \A i \in 1..(Len(pathname) - 1) : ~(pathname[i] = "/" /\ pathname[i + 1] = "/")
  /\ (p # <<>> /\ path # <<>>) =>
       /\ Len(pathname) = Len(p) + 1 + Len(residual)
       /\ SubSeq(pathname, 1, Len(p)) = p
       /\ pathname[Len(p) + 1] = "/"

\* the claim for one application of buildTargetUrl: the base with one more "/"
\* gives the same outbound URL, and the boundary has exactly one "/"
SlashInsensitive(a, out) ==
  /\ BuildTargetUrl(a.base \o <<"/">>, a.path, a.search) = out
  /\ out.ok
  /\ OneSlashBoundary(out.value.pathname, Tail(a.base), a.path)

\* C11 as claimed: for every base, every residual segment list and every query,
\* buildTargetUrl gives the same outbound URL for the base and for the base
\* followed by "/", with exactly one "/" at the boundary.
C11_AsClaimed ==
  (fn.op = "buildTargetUrl" /\ fn.args.base # <<>>) =>
    SlashInsensitive(fn.args, fn.out[1])

\* C11 (amended): the same, for every base that does not itself end in "/".
C11_OneTrailingSlash ==
  (fn.op = "buildTargetUrl" /\ fn.args.base # <<>> /\ ~EndsWith(fn.args.base, "/")) =>
    SlashInsensitive(fn.args, fn.out[1])

\* C11 witness: a base with a path, two residual segments and a query
C11_Witness ==
  /\ fn.op = "buildTargetUrl"
  /\ fn.args.base = <<"http://backend", "/", "api">>
  /\ Len(fn.args.path) = 2
  /\ fn.args.search # <<>>
  /\ BuildTargetUrl(<<"http://backend", "/", "api", "/">>, fn.args.path, fn.args.search)
       = fn.out[1]
  /\ Href(fn.out[1].value)
       = <<"http://backend", "/", "api", "/", "collections", "/", "7", "?", "a=1">>

\* ---------------------------------------------------------------- C15
\* sign() resolves in this step for the activation in slot s, which stores and
\* returns its token
Signed(s) ==
  /\ last'.kind = "signed"
  /\ calls[s].pc = "signing"
  /\ last' = Outcome("signed", calls[s].userId, calls[s].email,
                     <<Sign(calls[s].payload, calls[s].alg, calls[s].secret)>>)
  /\ calls' = Without(calls, s)

\* the activation was called at or after the expiry of the entry it found
FoundExpired(c) ==
  c.pc = "signing" /\ c.cached # <<>>

\* C15 as claimed: a call made at or after the expiry of its identity's cached
\* token signs a token whose iat is strictly greater than the iat of the token
\* it replaces in the cache.
C15_AsClaimed ==
  [][\A s \in CallSlots :
       LET k == CacheKey(calls[s].userId, calls[s].email) IN
       (Signed(s) /\ FoundExpired(calls[s]) /\ k \in DOMAIN tokenCache)
         => tokenCache'[k].token.payload.iat > tokenCache[k].token.payload.iat]_vars

\* C15 (amended): a call made with a signing key at or after the expiry of its
\* identity's cached token goes on to sign a token whose iat is strictly greater
\* than the iat of that expired token, and stores it when sign() resolves.
C15_LaterThanExpired ==
  [][ /\ \A I \in Users :
           LET k == CacheKey(I.id, I.email) IN
           ( /\ Entered(I)
             /\ env.JWT_SECRET_KEY # ""
             /\ k \in DOMAIN tokenCache
             /\ tokenCache[k].expiresAt <= clock )
           => \E s \in CallSlots :
                /\ calls[s].pc = "idle"
                /\ calls'[s].pc = "signing"
                /\ calls'[s].cached = <<tokenCache[k].expiresAt>>
                /\ calls'[s].payload.iat > tokenCache[k].token.payload.iat
      /\ \A s \in CallSlots :
           (Signed(s) /\ FoundExpired(calls[s]))
             => LET k == CacheKey(calls[s].userId, calls[s].email) IN
                /\ calls[s].cached[1] <= clock
                /\ tokenCache'[k].token = last'.result[1]
                /\ tokenCache'[k].token.payload.iat * MsPerSec >= calls[s].cached[1]
                /\ tokenCache'[k].token.payload.iat
                     > calls[s].cached[1] \div MsPerSec - ExpiresIn ]_vars

\* C15 witness: a call that found its identity's token expired has stored a
\* token with a later iat, while a second call that found the same expired
\* token is still waiting for sign()
C15_Witness ==
  /\ last.kind = "signed"
  /\ \E s \in DirectSlots :
       LET c == calls[s]
           k == CacheKey(c.userId, c.email)
       IN  /\ FoundExpired(c)
           /\ Ident(c) = Ident(last)
           /\ k \in DOMAIN tokenCache
           /\ tokenCache[k].token = last.result[1]
           /\ tokenCache[k].expiresAt # c.cached[1]
           /\ c.cached[1] <= clock
           /\ tokenCache[k].token.payload.iat * MsPerSec >= c.cached[1]

\* ---------------------------------------------------------------- C16
\* the entry expires at its token's exp claim, in milliseconds, 24 hours after
\* the token's iat
ExpiresWithToken(entry) ==
  /\ entry.expiresAt = entry.token.payload.exp * MsPerSec
  /\ entry.token.payload.exp = entry.token.payload.iat + ExpiresIn

\* C16: every cache entry's expiresAt is the exp claim of its token times 1000,
\* and exp = iat + 86400; a call answered from the cache returns a token whose
\* exp claim is still in the future.
C16_ExpiryIsExpClaim ==
  [][ /\ \A k \in DOMAIN tokenCache' : ExpiresWithToken(tokenCache'[k])
      /\ \A I \in Users :
           (Entered(I) /\ last'.kind = "hit")
             => /\ NowSeconds(clock) < last'.result[1].payload.exp
                /\ clock < last'.result[1].payload.exp * MsPerSec ]_vars

\* C16 witness: a call was answered from the cache in the last millisecond of
\* the second its token was issued in
C16_Witness ==
  /\ last.kind = "hit"
  /\ clock = MsPerSec - 1
  /\ LET k == CacheKey(last.userId, last.email) IN
       /\ k \in DOMAIN tokenCache
       /\ tokenCache[k].token = last.result[1]
       /\ ExpiresWithToken(tokenCache[k])
       /\ clock < tokenCache[k].expiresAt

\* ---------------------------------------------------------------- C17
\* C17: clearCachedToken(I) leaves no entry under I's cache key and every entry
\* under another key as it was; clearAllCachedTokens leaves the cache empty;
\* applying either one a second time gives the cache the first application
\* gave, and either one applied to a cache with nothing for it to remove
\* returns the cache unchanged.
C17_Eviction ==
  /\ fn.op = "clearCachedToken" =>
       LET cache == fn.args.cache
           k == CacheKey(fn.args.userId, fn.args.email)
           out == fn.out[1]
       IN  /\ DOMAIN out = DOMAIN cache \ {k}
           /\ \A j \in DOMAIN out : out[j] = cache[j]
           /\ Cleared(out, fn.args.userId, fn.args.email) = out
           /\ k \notin DOMAIN cache => out = cache
  /\ fn.op = "clearAllCachedTokens" =>
       /\ fn.out[1] = <<>>
       /\ ClearedAll(fn.out[1]) = fn.out[1]
       /\ fn.args.cache = <<>> => fn.out[1] = fn.args.cache

\* C17 witness: one identity's entry has been evicted from a cache that held
\* another identity's entry too
C17_Witness ==
  /\ fn.op = "clearCachedToken"
  /\ CacheKey(fn.args.userId, fn.args.email) \in DOMAIN fn.args.cache
  /\ Cardinality(DOMAIN fn.args.cache) = 2
  /\ Cardinality(DOMAIN fn.out[1]) = 1

\* ---------------------------------------------------------------- C18
\* C18: however concurrent calls interleave at their signing step, a call that
\* resolves writes one entry under its own cache key (adding the key or
\* overwriting what is there) whose token and expiry are both its own, and
\* leaves every entry under another key as it was; a call that enters, and a
\* call whose signing fails, write nothing; so every entry is the pair of one
\* issuance.
C18_OnePairPerKey ==
  [][ /\ \A s \in CallSlots :
           Signed(s) =>
             LET c == calls[s]
                 k == CacheKey(c.userId, c.email)
             IN  /\ DOMAIN tokenCache' = DOMAIN tokenCache \cup {k}
                 /\ tokenCache'[k].token = Sign(c.payload, c.alg, c.secret)
                 /\ tokenCache'[k].expiresAt = c.payload.exp * MsPerSec
                 /\ \A j \in DOMAIN tokenCache \ {k} : tokenCache'[j] = tokenCache[j]
      /\ (\E I \in Users : Entered(I)) => tokenCache' = tokenCache
      /\ last'.kind = "signfail" => tokenCache' = tokenCache
      /\ \A k \in DOMAIN tokenCache' :
           tokenCache'[k].expiresAt = TokenExpiry(tokenCache'[k].token) ]_vars

\* C18 witness: of two calls for one identity suspended at the same time, the
\* one that entered a day later resolved first and the older one last: the
\* cache holds the older call's token with the older call's expiry
C18_Witness ==
  /\ last.kind = "signed"
  /\ watched # <<>>
  /\ LET k == CacheKey(last.userId, last.email) IN
       /\ CacheKey(watched[1].ident.id, watched[1].ident.email) = k
       /\ tokenCache[k].token = last.result[1]
       /\ watched[1].token.payload.iat > tokenCache[k].token.payload.iat
       /\ tokenCache[k].expiresAt = TokenExpiry(last.result[1])
       /\ tokenCache[k].expiresAt < TokenExpiry(watched[1].token)

\* ---------------------------------------------------------------- C19
\* the routes whose response reconstruction is in this repository
Reconstructors == {"langconnect", "langconnect-open", "mcp"}

\* the response is the downstream response d: its status, status text and body,
\* each of its headers with its value, and beside them only defaults that d
\* does not set
Relays(response, d, defaults) ==
  /\ response.status = d.status
  /\ response.statusText = d.statusText
  /\ response.body = d.body
  /\ \A h \in DOMAIN d.headers :
       h \in DOMAIN response.headers /\ response.headers[h] = d.headers[h]
  /\ \A h \in DOMAIN response.headers \ DOMAIN d.headers :
       h \in DOMAIN defaults /\ response.headers[h] = defaults[h]

\* C19 as claimed: when the downstream call has returned a response, the response the
\* handler returns has that response's status, status text and body and every
\* one of its headers with the downstream's value, also where the
\* reconstruction had set a default for it: in the passthrough of the
\* LangConnect routes and, in the MCP route, both when the body parsed as JSON
\* and when it was taken as text.
C19_DownstreamHeadersWin ==
  ( /\ req.pc = "done"
    /\ req.route \in Reconstructors
    /\ req.sent # <<>>
    /\ req.failure = <<>> )
  => \E d \in DownstreamResponses :
       Relays(req.resp[1], d,
              IF req.route # "mcp" THEN <<>>
              ELSE IF d.body.kind = "json" THEN JsonHeaders ELSE TextHeaders)

\* ---------------------------------------------------------------- C20
\* the routes C20 names: both LangConnect handlers and the deployment proxy
SevenMethodRoutes == {"langconnect", "langconnect-open", "langgraph"}

\* the request r was received as
Inbound(r) ==
  [IdleReq EXCEPT !.route = r.route, !.method = r.method, !.headers = r.headers,
                  !.body = r.body, !.session = r.session, !.path = r.path,
                  !.search = r.search]

\* the handler from the arrival of r to its downstream call, its hand-over or
\* its return, when generateJWTToken settles with result
ToForward(r, result) ==
  LET r1 == Start(r) IN
  IF r1.pc = "token" THEN AfterToken(r1, result) ELSE r1

\* a and b went through the same checks with the same outcome: the same
\* identity lookup and token calls, the same downstream call or hand-over
\* but for method and body, the same response when nothing was forwarded
SameChecks(a, b) ==
  /\ a.looked = b.looked
  /\ a.issued = b.issued
  /\ Len(a.sent) = Len(b.sent)
  /\ \A i \in 1..Len(a.sent) :
       a.sent[i].url = b.sent[i].url /\ a.sent[i].headers = b.sent[i].headers
  /\ Len(a.handoff) = Len(b.handoff)
  /\ \A i \in 1..Len(a.handoff) :
       /\ a.handoff[i].apiUrl = b.handoff[i].apiUrl
       /\ a.handoff[i].baseRoute = b.handoff[i].baseRoute
       /\ a.handoff[i].headers = b.handoff[i].headers
  /\ (a.sent = <<>> /\ a.handoff = <<>>) => a.resp = b.resp

\* C20 as claimed: on the LangConnect routes and on the deployment proxy, a
\* request of any of the seven methods goes through the checks a GET request
\* with the same URL, headers and session goes through, with the same outcome;
\* only the forwarded body depends on the method.
C20_SevenMethodsAlike ==
  (req.route \in SevenMethodRoutes /\ req.pc # "idle") =>
    LET asGet == [Inbound(req) EXCEPT !.method = "GET", !.body = <<>>] IN
    IF req.pc = "token"
      THEN Start(asGet).pc = "token"
      ELSE SameChecks(req, ToForward(asGet, req.token))

\* ---------------------------------------------------------------- C21
\* token is one that generateJWTToken signs for identity I: its claim set is
\* the one lines 42-60 build from I's userId and email
SignedFor(token, I) ==
  \E ac \in ClaimMaps :
    token.payload = Payload(I.id, I.email, token.payload.iat, ac)

\* C21 as claimed: every token a call of generateJWTToken returns, from the
\* cache or newly signed, was signed for the identity of that call, also when
\* the identities' fields contain ":".
C21_NeverAnothersToken ==
  [][last'.kind \in {"hit", "signed"}
       => SignedFor(last'.result[1], Ident(last'))]_vars

\* ---------------------------------------------------------------- C22
\* C22 as claimed: a call of generateJWTToken that starts after an eviction of
\* its cache key has returned is never answered with a token that was being
\* signed when that eviction happened.
C22_NoTokenFromBeforeEviction ==
  [][\A I \in Users :
       (Entered(I) /\ last'.kind = "hit") => last'.result[1] \notin stale]_vars

\* ---------------------------------------------------------------- C23
\* the routing or configuration reason the handler rejects r for, "" when
\* there is none: read off the configuration and the request path
RejectedFor(r) ==
  CASE r.route = "langgraph" ->
         IF ~GetDeploymentUrl(r.path, config.deployments).found THEN "404"
         ELSE IF config.USE_LANGSMITH_AUTH # "true" THEN "403"
         ELSE ""
    [] r.route \in {"langconnect", "langconnect-open"} ->
         IF config.API_BASE = <<>> THEN "500" ELSE ""
    [] r.route = "mcp" ->
         IF config.MCP_SERVER_URL = <<>> THEN "500" ELSE ""
    [] OTHER -> ""

\* the checks r has gone through so far are in the order resolution, feature
\* flag, identity, token issuance, downstream call
ChecksInOrder(r) ==
  /\ LET reason == RejectedFor(r)
     IN IF reason # ""
          THEN /\ r.pc = "done"
               /\ r.resp # <<>>
               /\ r.resp[1].status = (CASE reason = "404" -> 404
                                        [] reason = "403" -> 403
                                        [] OTHER -> 500)
               /\ ~r.looked
               /\ r.issued = 0
               /\ r.token = <<>>
               /\ r.sent = <<>>
               /\ r.handoff = <<>>
          ELSE TRUE
  /\ r.issued > 0 => r.looked /\ r.session # <<>> /\ r.issued = 1
  /\ r.token # <<>> => r.issued = 1
  /\ (r.route \in AuthRoutes /\ (r.sent # <<>> \/ r.handoff # <<>>))
       => r.token # <<>>

\* C23: a request the handler rejects because the deployment does not resolve
\* (404) or the route is disabled (403) on the deployment proxy, or because the
\* target base URL is missing (500) on the LangConnect and MCP routes, has
\* looked up no identity and asked for no token, and its arrival leaves the
\* token cache and the suspended issuances as they were; every request goes
\* through resolution, feature flag, identity lookup, token issuance and
\* downstream call in that order.
C23_RejectedBeforeIdentity ==
  [][ (req' # req /\ req'.pc # "idle" /\ req'.method \in Dispatched(req'.route))
        => /\ ChecksInOrder(req')
           /\ (req.pc = "idle" /\ RejectedFor(req') # "")
                => /\ tokenCache' = tokenCache
                   /\ calls' = calls
                   /\ started' = started ]_vars

\* C23 witness: after a request that had a token issued and cached, a request
\* of a signed-in user to the disabled deployment proxy, for a deployment that
\* resolves, was answered 403 without an identity lookup
C23_Witness ==
  /\ req.route = "langgraph"
  /\ req.method \in Dispatched(req.route)
  /\ RejectedFor(req) = "403"
  /\ req.session # <<>>
  /\ req.pc = "done"
  /\ req.resp[1].status = 403
  /\ ~req.looked
  /\ req.issued = 0
  /\ tokenCache # <<>>
  /\ served = 2

\* ---------------------------------------------------------------- C12
\* C12 as claimed: whatever extra claims a call passes, the claim set it hands
\* to sign() has user_id and email of the call's identity, iat = the second of
\* the call and exp = iat + 86400.
C12_StandardClaimsFixed ==
  [][\A s \in CallSlots :
       (started' = started + 1 /\ calls[s].pc = "idle" /\ calls'[s].pc = "signing") =>
         /\ calls'[s].payload.user_id = calls'[s].userId
         /\ calls'[s].payload.email = calls'[s].email
         /\ calls'[s].payload.iat = NowSeconds(clock)
         /\ calls'[s].payload.exp = NowSeconds(clock) + ExpiresIn]_vars

\* ---------------------------------------------------------------- C13
\* C13: a call made while no signing key is configured throws at once, for
\* every identity, also one whose unexpired token is in the cache; it returns
\* no token, starts no signature and leaves the cache alone.
C13_NoKeyAlwaysFails ==
  [][\A I \in Users :
       (Entered(I) /\ env.JWT_SECRET_KEY = "") =>
         /\ calls' = calls
         /\ last'.kind = "nokey"
         /\ last'.result = <<>>
         /\ tokenCache' = tokenCache]_vars

\* C13 witness: a call failed for want of a key while the cache held an
\* unexpired token under its identity's key
C13_Witness ==
  /\ last.kind = "nokey"
  /\ CacheKey(last.userId, last.email) \in DOMAIN tokenCache
  /\ clock < tokenCache[CacheKey(last.userId, last.email)].expiresAt

\* ---------------------------------------------------------------- C14
\* every entry holds a token that a signature with a configured key and an HMAC
\* algorithm produced, with the expiry of that token
WellIssued(cache) ==
  \A k \in DOMAIN cache :
    /\ cache[k].token.alg \in {"HS256", "HS384", "HS512"}
    /\ cache[k].token.secret # ""
    /\ cache[k].expiresAt = cache[k].token.payload.exp * MsPerSec

\* C14: neither the start of a call nor its failure (no key, sign() rejected)
\* adds, changes or removes a cache entry, and every entry of the cache was
\* written by a successful issuance.
C14_FailureLeavesCache ==
  [][ /\ (\E I \in Users : Entered(I)) => tokenCache' = tokenCache
      /\ last'.kind \in {"nokey", "signfail"} => tokenCache' = tokenCache
      /\ WellIssued(tokenCache') ]_vars

\* C14 witness: sign() rejected while the cache held an entry
C14_Witness ==
  /\ last.kind = "signfail"
  /\ tokenCache # <<>>
  /\ WellIssued(tokenCache)

====
